---- MODULE Spec2Model ----
(***************************************************************************)
(* Model of two pure computations of libra-framework:                      *)
(*   tools/genesis/src/supply.rs          get_supply_struct / inc_supply   *)
(*   tools/tower/src/core/proof_preimage.rs  genesis_preimage / padding    *)
(*                                                                         *)
(* Option<T> is modelled as a sequence: None is <<>>, Some(x) is <<x>>.    *)
(* u64 is modelled as 0..WordMax; WordMax stands for u64::MAX, scaled down *)
(* because the model checker's integers are 32 bits wide.                  *)
(***************************************************************************)
EXTENDS Integers, Sequences, FiniteSets, TLC

VARIABLES rec, pc, dd_wallets, idx, acc, ret,
          cfg, consts, stage, preimage, out,
          statement_bytes, limit, padded

supplyVars == <<rec, pc, dd_wallets, idx, acc, ret>>
preimageVars == <<cfg, consts, stage, preimage, out>>
paddingVars == <<statement_bytes, limit, padded>>
vars == <<rec, pc, dd_wallets, idx, acc, ret, cfg, consts, stage, preimage, out, statement_bytes, limit, padded>>

None == <<>>
Some(x) == <<x>>

\* ------------------------------------------------------------------ bounds
\* largest value of the (scaled) unsigned word that stands for u64
WordMax == 1023
\* longest record sequence handed to get_supply_struct
MaxRecs == 3

\* ------------------------------------------------------------ supply.rs
Supply == [total |-> 0, normal |-> 0, validator |-> 0, validator_locked |-> 0,
           slow_total |-> 0, slow_locked |-> 0, slow_unlocked |-> 0, donor_directed |-> 0]

\* u64::checked_add: None on overflow
CheckedAdd_Wrapping(a, b) == Some((a + b) % (WordMax + 1))
CheckedAdd(a, b) == IF a + b > WordMax THEN None ELSE Some(a + b)

\* the outcome of a computation that may fail: tag "Ok" carries the value, any other
\* tag names the failure (a panic or an Err) and carries nothing
Ok(a) == [tag |-> "Ok", val |-> a]
Panic(kind) == [tag |-> kind, val |-> None]
\* nothing returned yet, and the computation not called at all
Pending == [tag |-> "none", val |-> None]
NotCalled == [tag |-> "idle", val |-> None]

\* acc.f = acc.f.checked_add(x).unwrap(), skipped once an earlier unwrap panicked
AddTo_AssignLocked(s, f, x) ==
  IF s.tag # "Ok" THEN s
  ELSE LET c == CheckedAdd(IF f = "slow_locked" THEN 0 ELSE s.val[f], x)
       IN IF c = None THEN Panic("ArithmeticOverflow")
          ELSE Ok([s.val EXCEPT ![f] = c[1]])
AddTo(s, f, x) ==
  IF s.tag # "Ok" THEN s
  ELSE LET c == CheckedAdd(s.val[f], x)
       IN IF c = None THEN Panic("ArithmeticOverflow")
          ELSE Ok([s.val EXCEPT ![f] = c[1]])

\* Vec::contains
Contains(list, a) == \E i \in 1..Len(list) : list[i] = a

\* let amount = match &r.balance { Some(b) => b.coin, None => 0 }
Amount_NoneIsOne(r) == IF r.balance = None THEN 1 ELSE r.balance[1]
Amount(r) == IF r.balance = None THEN 0 ELSE r.balance[1]

\* let locked = amount - sl.unlocked
Locked_Plus(amount, unlocked) == amount + unlocked
Locked(amount, unlocked) == amount - unlocked

\* the slow-wallet branch of inc_supply (lines 37-50)
SlowBranch_TotalInside(s0, r, amount) ==
  LET sl == r.slow_wallet[1]
  IN IF sl > 0
     THEN LET s2 == AddTo(AddTo(s0, "slow_total", amount), "slow_unlocked", amount)
          IN IF amount > sl
             THEN LET locked == Locked(amount, sl)
                      s3 == AddTo(s2, "slow_locked", locked)
                  IN IF r.val_cfg
                     THEN AddTo(AddTo(s3, "validator", amount), "validator_locked", locked)
                     ELSE s3
             ELSE s2
     ELSE s0
SlowBranch_ValAlways(s0, r, amount) ==
  LET sl == r.slow_wallet[1]
      s1 == AddTo(s0, "slow_total", amount)
  IN IF sl > 0
     THEN LET s2 == AddTo(s1, "slow_unlocked", amount)
          IN IF amount > sl
             THEN LET locked == Locked(amount, sl)
                      s3 == AddTo(s2, "slow_locked", locked)
                  IN AddTo(AddTo(s3, "validator", amount), "validator_locked", locked)
             ELSE s2
     ELSE s1
SlowBranch(s0, r, amount) ==
  LET sl == r.slow_wallet[1]
      s1 == AddTo(s0, "slow_total", amount)
  IN IF sl > 0
     THEN LET s2 == AddTo(s1, "slow_unlocked", amount)
          IN IF amount > sl
             THEN LET locked == Locked(amount, sl)
                      s3 == AddTo(s2, "slow_locked", locked)
                  IN IF r.val_cfg
                     THEN AddTo(AddTo(s3, "validator", amount), "validator_locked", locked)
                     ELSE s3
             ELSE s2
     ELSE s1

\* which of the three branches of inc_supply a record takes
Branch_SlowFirst(r, dd_wallet_list) ==
  IF r.slow_wallet # None THEN "slow"
  ELSE IF Contains(dd_wallet_list, r.account[1]) THEN "donor_directed"
  ELSE "normal"
Branch(r, dd_wallet_list) ==
  IF Contains(dd_wallet_list, r.account[1]) THEN "donor_directed"
  ELSE IF r.slow_wallet # None THEN "slow"
  ELSE "normal"

\* inc_supply(acc, r, dd_wallet_list); r.account.unwrap() panics on None
IncSupply(a, r, dd_wallet_list) ==
  LET amount == Amount(r)
      s0 == AddTo(Ok(a), "total", amount)
  IN IF s0.tag # "Ok" THEN s0
     ELSE IF r.account = None THEN Panic("NoAccount")
     ELSE LET b == Branch(r, dd_wallet_list)
          IN IF b = "donor_directed" THEN AddTo(s0, "donor_directed", amount)
             ELSE IF b = "slow" THEN SlowBranch(s0, r, amount)
             ELSE AddTo(s0, "normal", amount)

\* rec.iter().find(|el| el.comm_wallet.is_some()): index of the first match, 0 if none
RECURSIVE FindFrom(_, _)
FindFrom(rs, i) ==
  IF i > Len(rs) THEN 0
  ELSE IF rs[i].comm_wallet # None THEN i
  ELSE FindFrom(rs, i + 1)

\* the dd_wallets binding of get_supply_struct (lines 73-78): Some(list) or None,
\* with the error of the failing .context(..)?
DdWallets(rs) ==
  LET i == FindFrom(rs, 1)
  IN IF i = 0 THEN [tag |-> "MissingRegistryRecord", list |-> None]
     ELSE IF rs[i].comm_wallet = None THEN [tag |-> "MissingDonorDirectedList", list |-> None]
     ELSE [tag |-> "Ok", list |-> rs[i].comm_wallet[1]]

\* rec.iter().try_fold(zeroth, |acc, r| inc_supply(acc, r, &dd_wallets.list)) from record i on
RECURSIVE TryFold(_, _, _, _)
TryFold(s, rs, i, list) ==
  IF s.tag # "Ok" \/ i > Len(rs) THEN s
  ELSE TryFold(IncSupply(s.val, rs[i], list), rs, i + 1, list)

\* get_supply_struct as a function of the record sequence
GetSupplyStruct(rs) ==
  LET d == DdWallets(rs)
  IN IF d.tag # "Ok" THEN Panic(d.tag)
     ELSE TryFold(Ok(Supply), rs, 1, d.list)

\* ----- inputs of get_supply_struct
Addresses == {1, 2}
\* a balance so large that two more records can overflow the total
Big == WordMax - 300

\* LegacyRecovery, restricted to the fields get_supply_struct reads
Rec(a, b, s, v, c) == [account |-> a, balance |-> b, slow_wallet |-> s, val_cfg |-> v, comm_wallet |-> c]

\* the (balance, slow wallet, validator config) of the ordinary accounts
Kinds ==
  { <<Some(200), None, FALSE>>,      \* plain account
    <<None, None, FALSE>>,           \* account without a balance resource
    <<Some(200), Some(0), FALSE>>,   \* slow wallet, nothing unlocked yet
    <<Some(200), Some(50), FALSE>>,  \* slow wallet, partly unlocked
    <<Some(200), Some(50), TRUE>>,   \* validator
    <<Some(50), Some(50), TRUE>>,    \* validator that transferred the locked part out
    <<Some(Big), Some(50), TRUE>> }  \* validator with a large balance

LegacyRecovery ==
  { Rec(Some(a), k[1], k[2], k[3], None) : a \in Addresses, k \in Kinds }
  \cup { Rec(Some(1), Some(50), None, FALSE, Some(<<a>>)) : a \in Addresses }   \* registry records
  \cup { Rec(None, Some(50), None, FALSE, None) }                              \* record without address

RecSeqs == UNION { [1..n -> LegacyRecovery] : n \in 0..MaxRecs }

InitSupply ==
  /\ rec \in RecSeqs
  /\ pc = "find"
  /\ dd_wallets = None
  /\ idx = 1
  /\ acc = Supply
  /\ ret = Pending

\* lines 62-78: zeroth, and the search for the registry record
FindRegistry ==
  /\ pc = "find"
  /\ LET d == DdWallets(rec)
     IN IF d.tag = "Ok"
        THEN /\ dd_wallets' = Some(d.list)
             /\ pc' = "fold"
             /\ ret' = ret
        ELSE /\ dd_wallets' = None
             /\ pc' = "done"
             /\ ret' = Panic(d.tag)
  /\ UNCHANGED <<rec, idx, acc>>
  /\ UNCHANGED <<preimageVars, paddingVars>>

\* lines 80-82: one iteration of try_fold
FoldStep ==
  /\ pc = "fold"
  /\ idx <= Len(rec)
  /\ LET s == IncSupply(acc, rec[idx], dd_wallets[1])
     IN IF s.tag = "Ok"
        THEN /\ acc' = s.val
             /\ idx' = idx + 1
             /\ UNCHANGED <<pc, ret>>
        ELSE /\ pc' = "done"
             /\ ret' = s
             /\ UNCHANGED <<acc, idx>>
  /\ UNCHANGED <<rec, dd_wallets>>
  /\ UNCHANGED <<preimageVars, paddingVars>>

\* lines 80-83: try_fold ran out of records; the accumulator is returned
FoldReturn ==
  /\ pc = "fold"
  /\ idx > Len(rec)
  /\ pc' = "done"
  /\ ret' = Ok(acc)
  /\ UNCHANGED <<rec, dd_wallets, idx, acc>>
  /\ UNCHANGED <<preimageVars, paddingVars>>

\* ---------------------------------------------------- proof_preimage.rs
AUTH_KEY_BYTES == 32
CHAIN_ID_BYTES == 16
DIFFICULTY_BYTES == 8
SECURITY_BYTES == 8
PIETRZAK == 1
LINK_TO_TOWER == 64
STATEMENT_BYTES == 895

\* vec![0; n]
Zeros(n) == [i \in 1..n |-> 0]

\* padding(statement_bytes, limit): panics when the bytes are longer than the limit
Padding_Right(bytes, lim) ==
  IF Len(bytes) > lim THEN Panic("FieldTooLong")
  ELSE IF Len(bytes) < lim THEN Ok(bytes \o Zeros(lim - Len(bytes)))
  ELSE Ok(bytes)
Padding_NoPad(bytes, lim) ==
  IF Len(bytes) > lim THEN Panic("FieldTooLong")
  ELSE Ok(bytes)
Padding_Truncate(bytes, lim) ==
  IF Len(bytes) > lim THEN Ok(SubSeq(bytes, 1, lim))
  ELSE IF Len(bytes) < lim THEN Ok(Zeros(lim - Len(bytes)) \o bytes)
  ELSE Ok(bytes)
Padding(bytes, lim) ==
  IF Len(bytes) > lim THEN Panic("FieldTooLong")
  ELSE IF Len(bytes) < lim
       THEN LET padding_length == lim - Len(bytes)
                padding_bytes == Zeros(padding_length)
            IN Ok(padding_bytes \o bytes)
       ELSE Ok(bytes)

\* the value of a hex digit given by its ASCII code, -1 for any other character
HexVal(c) ==
  IF c >= 48 /\ c <= 57 THEN c - 48
  ELSE IF c >= 97 /\ c <= 102 THEN c - 87
  ELSE IF c >= 65 /\ c <= 70 THEN c - 55
  ELSE -1

\* hex::decode of a string of ASCII codes: Err on odd length or a non-hex character
Decode(str) ==
  IF Len(str) % 2 # 0 THEN Panic("InvalidHexAuthKey")
  ELSE IF \E i \in 1..Len(str) : HexVal(str[i]) < 0 THEN Panic("InvalidHexAuthKey")
  ELSE Ok([i \in 1..(Len(str) \div 2) |-> 16 * HexVal(str[2 * i - 1]) + HexVal(str[2 * i])])

\* the UTF-8 encoding of one code point (up to U+FFFF)
Utf8Char(cp) ==
  IF cp < 128 THEN <<cp>>
  ELSE IF cp < 2048 THEN <<192 + (cp \div 64), 128 + (cp % 64)>>
  ELSE <<224 + (cp \div 4096), 128 + ((cp \div 64) % 64), 128 + (cp % 64)>>

\* String::into_bytes of a string given as its code points
RECURSIVE IntoBytes(_)
IntoBytes(str) ==
  IF Len(str) = 0 THEN <<>>
  ELSE IF Len(str) = 1 THEN Utf8Char(str[1])
  ELSE LET m == Len(str) \div 2
       IN IntoBytes(SubSeq(str, 1, m)) \o IntoBytes(SubSeq(str, m + 1, Len(str)))

\* default_chain_id.to_string().as_bytes(): the decimal digits, in ASCII
RECURSIVE ChainIdToString(_)
ChainIdToString(n) ==
  IF n < 10 THEN <<48 + n>> ELSE ChainIdToString(n \div 10) \o <<48 + (n % 10)>>

\* write_u64::<LittleEndian>(v): eight bytes, least significant first
RECURSIVE ShiftRight8(_, _)
ShiftRight8(v, k) == IF k = 0 THEN v ELSE ShiftRight8(v \div 256, k - 1)
WriteU64LE(v) == [i \in 1..8 |-> ShiftRight8(v, i - 1) % 256]

\* ----- inputs of genesis_preimage
Repeat(c, n) == [i \in 1..n |-> c]

\* auth keys as hex strings: 0, 31, 32 and 33 bytes, mixed case, odd length, non-hex
AuthKeys ==
  { Repeat(97, 2 * n) : n \in {0, AUTH_KEY_BYTES - 1, AUTH_KEY_BYTES, AUTH_KEY_BYTES + 1} }
  \cup { <<48, 65, 49, 102>>, <<97, 98, 99>>, <<48, 103>> }

\* statements of one-byte ('a') and two-byte (U+00E9) characters around the field width
Statements ==
  { Repeat(97, n) : n \in {0, 3, STATEMENT_BYTES, STATEMENT_BYTES + 1} }
  \cup { Repeat(233, n) : n \in {3, STATEMENT_BYTES \div 2, (STATEMENT_BYTES \div 2) + 1} }

ChainIds == {1, 4, 255}
VdfIterations == {100, 120000000}
VdfSecurity == {512}

InitPreimage ==
  /\ cfg \in [profile : {None} \cup { Some([auth_key |-> k, statement |-> t]) : k \in AuthKeys, t \in Statements },
              default_chain_id : ChainIds]
  /\ consts \in [GENESIS_VDF_ITERATIONS : VdfIterations, GENESIS_VDF_SECURITY_PARAM : VdfSecurity]
  /\ stage = "get_profile"
  /\ preimage = <<>>
  /\ out = Pending

\* line 23: cfg.get_profile(None)?
GetProfile ==
  /\ stage = "get_profile"
  /\ IF cfg.profile = None
     THEN stage' = "done" /\ out' = Panic("NoProfile")
     ELSE stage' = "auth_key" /\ out' = out
  /\ UNCHANGED <<cfg, consts, preimage>>
  /\ UNCHANGED <<supplyVars, paddingVars>>

\* appending a padded field, or the panic of padding
AppendPadded(bytes, lim, next) ==
  LET p == Padding(bytes, lim)
  IN IF p.tag = "Ok"
     THEN preimage' = preimage \o p.val /\ stage' = next /\ out' = out
     ELSE preimage' = preimage /\ stage' = "done" /\ out' = p

\* lines 26-31
AuthKey ==
  /\ stage = "auth_key"
  /\ LET d == Decode(cfg.profile[1].auth_key)
     IN IF d.tag # "Ok"
        THEN preimage' = preimage /\ stage' = "done" /\ out' = d
        ELSE AppendPadded(d.val, AUTH_KEY_BYTES, "chain_id")
  /\ UNCHANGED <<cfg, consts>>
  /\ UNCHANGED <<supplyVars, paddingVars>>

\* lines 35-44
ChainId ==
  /\ stage = "chain_id"
  /\ AppendPadded(ChainIdToString(cfg.default_chain_id), CHAIN_ID_BYTES, "difficulty")
  /\ UNCHANGED <<cfg, consts>>
  /\ UNCHANGED <<supplyVars, paddingVars>>

\* lines 47-49
Difficulty ==
  /\ stage = "difficulty"
  /\ preimage' = preimage \o WriteU64LE(consts.GENESIS_VDF_ITERATIONS)
  /\ stage' = "security"
  /\ UNCHANGED <<cfg, consts, out>>
  /\ UNCHANGED <<supplyVars, paddingVars>>

\* lines 52-54
Security ==
  /\ stage = "security"
  /\ preimage' = preimage \o WriteU64LE(consts.GENESIS_VDF_SECURITY_PARAM)
  /\ stage' = "pietrzak"
  /\ UNCHANGED <<cfg, consts, out>>
  /\ UNCHANGED <<supplyVars, paddingVars>>

\* line 57: write_u8(1)
Pietrzak ==
  /\ stage = "pietrzak"
  /\ preimage' = preimage \o <<1>>
  /\ stage' = "link"
  /\ UNCHANGED <<cfg, consts, out>>
  /\ UNCHANGED <<supplyVars, paddingVars>>

\* lines 61-62
LinkToTower ==
  /\ stage = "link"
  /\ AppendPadded(<<>>, LINK_TO_TOWER, "statement")
  /\ UNCHANGED <<cfg, consts>>
  /\ UNCHANGED <<supplyVars, paddingVars>>

\* lines 65-67
Statement ==
  /\ stage = "statement"
  /\ AppendPadded(IntoBytes(cfg.profile[1].statement), STATEMENT_BYTES, "assert")
  /\ UNCHANGED <<cfg, consts>>
  /\ UNCHANGED <<supplyVars, paddingVars>>

\* lines 69-90: the two length assertions, then Ok(preimage)
AssertAndReturn ==
  /\ stage = "assert"
  /\ out' = IF Len(preimage) # AUTH_KEY_BYTES + CHAIN_ID_BYTES + DIFFICULTY_BYTES + SECURITY_BYTES
                                + PIETRZAK + LINK_TO_TOWER + STATEMENT_BYTES
               \/ Len(preimage) # 1024
            THEN Panic("LengthInvariantViolation")
            ELSE Ok(preimage)
  /\ stage' = "done"
  /\ UNCHANGED <<cfg, consts, preimage>>
  /\ UNCHANGED <<supplyVars, paddingVars>>

\* ----- padding on its own
\* longest byte string and widest field tried on padding alone
MaxBytes == 3
MaxLimit == 4
Bytes == {0, 7, 255}
ByteStrings == UNION { [1..n -> Bytes] : n \in 0..MaxBytes }

InitPadding ==
  /\ statement_bytes \in ByteStrings
  /\ limit \in 0..MaxLimit \cup {STATEMENT_BYTES}
  /\ padded = Pending

\* lines 93-109
CallPadding ==
  /\ padded.tag = "none"
  /\ padded' = Padding(statement_bytes, limit)
  /\ UNCHANGED <<statement_bytes, limit>>
  /\ UNCHANGED <<supplyVars, preimageVars>>

\* ----------------------------------------------------------- specifications
SupplyIdle ==
  /\ rec = <<>> /\ pc = "idle" /\ dd_wallets = None /\ idx = 0 /\ acc = Supply /\ ret = Pending
PreimageIdle ==
  /\ cfg = None /\ consts = None /\ stage = "idle" /\ preimage = <<>> /\ out = Pending
PaddingIdle ==
  /\ statement_bytes = <<>> /\ limit = 0 /\ padded = NotCalled

InitSupplySpec == InitSupply /\ PreimageIdle /\ PaddingIdle
InitPreimageSpec == InitPreimage /\ SupplyIdle /\ PaddingIdle
InitPaddingSpec == InitPadding /\ SupplyIdle /\ PreimageIdle

NextSupply == FindRegistry \/ FoldStep \/ FoldReturn
NextPreimage ==
  \/ GetProfile \/ AuthKey \/ ChainId \/ Difficulty \/ Security
  \/ Pietrzak \/ LinkToTower \/ Statement \/ AssertAndReturn
NextPadding == CallPadding

SpecSupply == InitSupplySpec /\ [][NextSupply]_vars
SpecPreimage == InitPreimageSpec /\ [][NextPreimage]_vars
SpecPadding == InitPaddingSpec /\ [][NextPadding]_vars

\* ------------------------------------------------ claims about supply.rs
RECURSIVE SumAmounts(_, _)
SumAmounts(rs, n) == IF n = 0 THEN 0 ELSE SumAmounts(rs, n - 1) + (IF rs[n].balance = None THEN 0 ELSE rs[n].balance[1])

Registries(rs) == { i \in 1..Len(rs) : rs[i].comm_wallet # None }
Permuted(rs) == { [i \in 1..Len(rs) |-> rs[p[i]]] : p \in Permutations(1..Len(rs)) }
SameOutcome(a, b) == (a.tag = "Ok") = (b.tag = "Ok") /\ (a.tag = "Ok" => a.val = b.val)

\* C1 (as stated): for every record sequence, more than one registry record included,
\* every permutation yields the same Supply and fails exactly when the original fails
C1_PermutationInvariance ==
  pc = "done" => \A p \in Permuted(rec) : SameOutcome(GetSupplyStruct(p), ret)

\* C1 (amended): the same, for the sequences whose registry records all carry the same list
C1_PermutationInvarianceOneList ==
  (pc = "done" /\ \A i, j \in Registries(rec) : rec[i].comm_wallet = rec[j].comm_wallet)
    => \A p \in Permuted(rec) : SameOutcome(GetSupplyStruct(p), ret)
C1_Witness ==
  /\ pc = "done" /\ ret.tag = "Ok" /\ Len(rec) >= 3
  /\ Cardinality(Registries(rec)) = 1
  /\ rec[1].comm_wallet = None
  /\ Cardinality({ ret.val.normal, ret.val.slow_total, ret.val.donor_directed, 0 }) = 4

\* C2: after every prefix of a fold, total = normal + slow_total + donor_directed,
\* and each record adds its amount to exactly one of the three
C2_Partition ==
  /\ [](/\ acc.total = acc.normal + acc.slow_total + acc.donor_directed
        /\ (ret.tag = "Ok" => ret.val.total = ret.val.normal + ret.val.slow_total + ret.val.donor_directed))
  /\ [][(pc = "fold" /\ idx' = idx + 1) =>
          LET a == Amount(rec[idx])
              d == << acc'.normal - acc.normal, acc'.slow_total - acc.slow_total,
                      acc'.donor_directed - acc.donor_directed >>
          IN d \in { <<a, 0, 0>>, <<0, a, 0>>, <<0, 0, a>> }]_vars
C2_Witness ==
  /\ pc = "done" /\ ret.tag = "Ok"
  /\ ret.val.normal > 0 /\ ret.val.slow_total > 0 /\ ret.val.validator > 0

\* C3: after folding any sequence of records the accumulator satisfies
\* slow_locked <= slow_total, slow_unlocked <= slow_total,
\* validator_locked <= slow_locked and validator <= slow_total
C3_Bounds ==
  /\ acc.slow_locked <= acc.slow_total
  /\ acc.slow_unlocked <= acc.slow_total
  /\ acc.validator_locked <= acc.slow_locked
  /\ acc.validator <= acc.slow_total
C3_Witness ==
  /\ pc = "done" /\ ret.tag = "Ok"
  /\ 0 < ret.val.validator_locked /\ ret.val.validator_locked < ret.val.slow_locked
  /\ ret.val.slow_locked < ret.val.slow_unlocked /\ ret.val.slow_locked < ret.val.slow_total

\* C4: when get_supply_struct succeeds, total is the sum of all records' balance
\* amounts, a record without balance counting 0
C4_TotalIsSum ==
  (pc = "done" /\ ret.tag = "Ok") => ret.val.total = SumAmounts(rec, Len(rec))
C4_Witness ==
  /\ pc = "done" /\ ret.tag = "Ok" /\ Len(rec) >= 3
  /\ \E i \in 1..Len(rec) : rec[i].balance = None
  /\ \E i \in 1..Len(rec) : rec[i].balance # None /\ Contains(dd_wallets[1], rec[i].account[1])
  /\ \E i \in 1..Len(rec) : rec[i].balance # None /\ rec[i].comm_wallet # None

\* index of the record at which the running total first exceeds the word, 0 if none
RECURSIVE OverflowAt(_, _)
OverflowAt(rs, n) ==
  IF n > Len(rs) THEN 0
  ELSE IF SumAmounts(rs, n) > WordMax THEN n
  ELSE OverflowAt(rs, n + 1)

\* C5 (as stated): every record sequence whose amounts sum to more than the word's
\* maximum ends with the ArithmeticOverflow outcome and no Supply
C5_OverflowAlways ==
  (pc = "done" /\ SumAmounts(rec, Len(rec)) > WordMax)
    => ret.tag = "ArithmeticOverflow" /\ ret.val = None

\* C5 (amended): such a sequence never yields a Supply; the failure is the arithmetic
\* overflow when the sequence has a registry record and no record before the
\* overflowing one lacks an address (otherwise the earlier failure is reported);
\* the running total is never a wrapped sum
C5_Overflow ==
  /\ (pc = "done" /\ SumAmounts(rec, Len(rec)) > WordMax)
       => /\ ret.tag # "Ok" /\ ret.val = None
          /\ (Registries(rec) # {}
              /\ \A i \in 1..(OverflowAt(rec, 1) - 1) : rec[i].account # None)
               => ret.tag = "ArithmeticOverflow"
  /\ pc = "fold" => acc.total = SumAmounts(rec, idx - 1)
  /\ (pc = "done" /\ ret.tag = "Ok") => SumAmounts(rec, Len(rec)) <= WordMax
C5_Witness ==
  /\ pc = "done" /\ ret.tag = "ArithmeticOverflow" /\ ret.val = None
  /\ idx = 3 /\ acc.total > 0 /\ acc.slow_total > 0
  /\ SumAmounts(rec, 2) <= WordMax /\ SumAmounts(rec, 3) > WordMax

\* C9: a successful step on a record whose address is in the donor-directed list adds
\* the amount to total and donor_directed and changes no other counter, whatever
\* slow-wallet info or validator config the record carries
C9_DonorDirectedPriority ==
  [][(pc = "fold" /\ idx' = idx + 1 /\ Contains(dd_wallets[1], rec[idx].account[1]))
       => acc' = [acc EXCEPT !.total = @ + Amount(rec[idx]),
                             !.donor_directed = @ + Amount(rec[idx])]]_vars
C9_Witness ==
  /\ pc = "fold" /\ idx > 1
  /\ LET r == rec[idx - 1]
     IN /\ Contains(dd_wallets[1], r.account[1])
        /\ r.slow_wallet # None /\ r.val_cfg
        /\ r.slow_wallet[1] > 0 /\ Amount(r) > r.slow_wallet[1]
        /\ acc.donor_directed = Amount(r) /\ acc.slow_total = 0 /\ acc.validator = 0

\* C10: a successful step on a slow-wallet record that is not donor-directed adds the
\* amount to total and slow_total; with unlocked = 0 nothing else changes; with
\* unlocked > 0 slow_unlocked grows by the amount, slow_locked by amount - unlocked
\* only if amount > unlocked, and validator (by amount) and validator_locked (by
\* amount - unlocked) grow exactly when moreover the validator config is present
C10_SlowWalletRule ==
  [][(pc = "fold" /\ idx' = idx + 1 /\ rec[idx].slow_wallet # None
      /\ ~Contains(dd_wallets[1], rec[idx].account[1]))
       => LET a == Amount(rec[idx])
              u == rec[idx].slow_wallet[1]
              l == IF u > 0 /\ a > u THEN a - u ELSE 0
              v == u > 0 /\ a > u /\ rec[idx].val_cfg
          IN acc' = [acc EXCEPT !.total = @ + a,
                                !.slow_total = @ + a,
                                !.slow_unlocked = @ + (IF u > 0 THEN a ELSE 0),
                                !.slow_locked = @ + l,
                                !.validator = @ + (IF v THEN a ELSE 0),
                                !.validator_locked = @ + (IF v THEN l ELSE 0)]]_vars
\* Scenario B's record Z: amount 200, unlocked 50, validator config present
C10_Witness ==
  /\ pc = "done" /\ ret.tag = "Ok" /\ Len(rec) = 2
  /\ rec[2].balance = Some(200) /\ rec[2].slow_wallet = Some(50) /\ rec[2].val_cfg
  /\ ret.val.slow_total = 200 /\ ret.val.slow_unlocked = 200 /\ ret.val.slow_locked = 150
  /\ ret.val.validator = 200 /\ ret.val.validator_locked = 150

\* -------------------------------------------- claims about proof_preimage.rs
\* the value of the eight little-endian bytes that follow offset o
ReadU64LE(bs, o) ==
  IF \E i \in 5..8 : bs[o + i] # 0 THEN -1
  ELSE bs[o + 1] + 256 * (bs[o + 2] + 256 * (bs[o + 3] + 256 * bs[o + 4]))

\* the field of width w that follows offset o is zero bytes followed by content
FieldIs(bs, o, w, content) ==
  /\ \A i \in 1..(w - Len(content)) : bs[o + i] = 0
  /\ \A i \in 1..Len(content) : bs[o + w - Len(content) + i] = content[i]

\* C6: a returned preimage is exactly 1024 bytes: auth key (32), chain id (16),
\* iteration count (8), security parameter (8), scheme id (1), deprecated link (64),
\* statement (895), in that order; the length assertion never fails
C6_LengthInvariant ==
  /\ out.tag # "LengthInvariantViolation"
  /\ stage = "chain_id" => Len(preimage) = 32
  /\ stage = "difficulty" => Len(preimage) = 32 + 16
  /\ stage = "security" => Len(preimage) = 32 + 16 + 8
  /\ stage = "pietrzak" => Len(preimage) = 32 + 16 + 8 + 8
  /\ stage = "link" => Len(preimage) = 32 + 16 + 8 + 8 + 1
  /\ stage = "statement" => Len(preimage) = 32 + 16 + 8 + 8 + 1 + 64
  /\ stage = "assert" => Len(preimage) = 1024
  /\ (stage = "done" /\ out.tag = "Ok") =>
       /\ Len(out.val) = 1024
       /\ FieldIs(out.val, 0, 32, Decode(cfg.profile[1].auth_key).val)
       /\ FieldIs(out.val, 32, 16, ChainIdToString(cfg.default_chain_id))
       /\ ReadU64LE(out.val, 48) = consts.GENESIS_VDF_ITERATIONS
       /\ ReadU64LE(out.val, 56) = consts.GENESIS_VDF_SECURITY_PARAM
       /\ out.val[65] = 1
       /\ FieldIs(out.val, 65, 64, <<>>)
       /\ FieldIs(out.val, 129, 895, IntoBytes(cfg.profile[1].statement))
C6_Witness ==
  /\ stage = "done" /\ out.tag = "Ok" /\ Len(out.val) = 1024
  /\ Len(cfg.profile[1].auth_key) = 62
  /\ cfg.profile[1].statement = <<233, 233, 233>>
  /\ cfg.default_chain_id = 255
  /\ out.val[1] = 0 /\ out.val[2] = 170 /\ out.val[48] = 53
  /\ out.val[1018] = 0 /\ out.val[1019] = 195 /\ out.val[1024] = 169

\* C7 (as stated): a statement longer than 895 bytes, or a decoded auth key longer than
\* 32 bytes, always ends with the FieldTooLong outcome and no preimage
C7_RejectionAlways ==
  (stage = "done" /\ cfg.profile # None
   /\ \/ Len(IntoBytes(cfg.profile[1].statement)) > 895
      \/ LET d == Decode(cfg.profile[1].auth_key) IN d.tag = "Ok" /\ Len(d.val) > 32)
    => out.tag = "FieldTooLong" /\ out.val = None

\* C7 (amended): with such a statement or auth key no preimage is ever returned, and
\* the failure is FieldTooLong whenever the auth key is valid hex (an auth key that
\* is not valid hex fails first, as InvalidHexAuthKey)
C7_Rejection ==
  (stage = "done" /\ cfg.profile # None
   /\ \/ Len(IntoBytes(cfg.profile[1].statement)) > 895
      \/ LET d == Decode(cfg.profile[1].auth_key) IN d.tag = "Ok" /\ Len(d.val) > 32)
    => /\ out.tag # "Ok" /\ out.val = None
       /\ Decode(cfg.profile[1].auth_key).tag = "Ok" => out.tag = "FieldTooLong"
C7_Witness ==
  /\ stage = "done" /\ out.tag = "FieldTooLong" /\ out.val = None
  /\ Len(preimage) = 32 + 16 + 8 + 8 + 1 + 64
  /\ Len(cfg.profile[1].statement) = 448
  /\ Len(IntoBytes(cfg.profile[1].statement)) = 896

\* C8: for len(b) <= w, padding(b, w) is w - len(b) zero bytes followed by b, w bytes
\* in all (b itself when len(b) = w); for len(b) > w it fails and returns nothing
C8_Padding ==
  padded.tag \notin {"none", "idle"} =>
    IF Len(statement_bytes) <= limit
    THEN /\ padded.tag = "Ok"
         /\ Len(padded.val) = limit
         /\ \A i \in 1..(limit - Len(statement_bytes)) : padded.val[i] = 0
         /\ \A i \in 1..Len(statement_bytes) :
              padded.val[limit - Len(statement_bytes) + i] = statement_bytes[i]
         /\ (Len(statement_bytes) = limit => padded.val = statement_bytes)
    ELSE padded = Panic("FieldTooLong")
\* a 3-byte string in the 895-byte field: 892 zero bytes, then the 3 bytes
C8_Witness ==
  /\ padded.tag = "Ok" /\ limit = 895 /\ statement_bytes = <<7, 255, 7>>
  /\ Len(padded.val) = 895
  /\ \A i \in 1..892 : padded.val[i] = 0
  /\ SubSeq(padded.val, 893, 895) = <<7, 255, 7>>

====
